---- MODULE Spec2Model ----
(***************************************************************************)
(* Model of the power-monitoring dashboard Model/sensor2_5.py: the         *)
(* synthetic series generator, the fetch wrappers, the tabular             *)
(* post-processor, the playback cursor, the rolling buffer and the script  *)
(* that Streamlit re-runs on every user event and timed reload.            *)
(*                                                                         *)
(* Representation.                                                         *)
(*  - A datetime is an integer number of minutes; hour-of-day is           *)
(*    (t \div 60) % 24.                                                    *)
(*  - A float is a fixed-point integer in hundredths (110.0 is 11000).     *)
(*  - A cell value is a record [t |-> tag, v |-> integer]: "float" (v in   *)
(*    hundredths), "int", "numstr" (the decimal string of v), "str" (any   *)
(*    other string, v its code; sensor "sensor-00k" is code k), "isostr"   *)
(*    (isoformat() of minute v), "datetime" (minute v).                    *)
(*  - A list of dicts and a DataFrame are records                          *)
(*    [columns |-> set of names, rows |-> sequence of rows]; a row is a    *)
(*    function from column name to cell.                                   *)
(*  - The random module is a tape of draws in [0, 1), read cyclically.     *)
(*  - interval_minutes is a whole number of minutes plus billionths of a   *)
(*    minute; timedelta() rounds the fraction to whole microseconds.       *)
(***************************************************************************)
EXTENDS Integers, Sequences, FiniteSets, TLC

VARIABLES
    session_state,  \* st.session_state: a dict, DOMAIN = the keys present
    widgets,        \* the sidebar widgets' values
    pc,             \* position of the script run
    clicked,        \* whether this run was started by the Fetch Data button
    df,             \* the script's local df (what the page renders)
    elapsed,        \* seconds since session_state['last_refresh'], saturated
    run,            \* what the current script run has done so far
    gen,            \* frame of a generate_simulated_data call
    call            \* record of the last function-level call

vars == <<session_state, widgets, pc, clicked, df, elapsed, run, gen, call>>

----------------------------------------------------------------------------
(* Bounds of the model *)

\* longest end - start, in minutes, of a generated range
MaxSpan == 60
\* the second sampling interval tried beside the default
MaxInterval == 20
\* length of the cyclic tape of random draws
TapeLen == 2

----------------------------------------------------------------------------
(* Program constants *)

DEFAULT_INTERVAL == 15
MAX_BUFFER_SIZE == 100

NoneValue == [none |-> TRUE]

Float(x) == [t |-> "float", v |-> x]
IntV(x) == [t |-> "int", v |-> x]
NumStr(x) == [t |-> "numstr", v |-> x]
Str(x) == [t |-> "str", v |-> x]
IsoStr(m) == [t |-> "isostr", v |-> m]
DateTime(m) == [t |-> "datetime", v |-> m]

\* fixed-point product of two floats in hundredths
FMul(a, b) == (a * b) \div 100

Min(a, b) == IF a <= b THEN a ELSE b

\* a / b rounded to the nearest integer, halves to the even one (a >= 0, b > 0)
RoundHalfEven(a, b) ==
    LET q == a \div b
        r == a % b
    IN IF 2 * r < b THEN q
       ELSE IF 2 * r > b THEN q + 1
       ELSE IF q % 2 = 0 THEN q ELSE q + 1

\* the number minutes + nano * 1e-9 passed as interval_minutes: a whole number
\* of minutes (the int 15 is Interval(15, 0)) plus billionths of a minute
Interval(minutes, nano) == [minutes |-> minutes, nano |-> nano]

\* timedelta(minutes=interval_minutes): a duration holds whole microseconds,
\* the fraction rounded half to even; a billionth of a minute is 0.06
\* microseconds
Timedelta(interval_minutes) ==
    [minutes |-> interval_minutes.minutes,
     microseconds |-> RoundHalfEven(6 * interval_minutes.nano, 100)]

----------------------------------------------------------------------------
(* random: the tape holds draws of random.random() in hundredths *)

Draws == {0, 50}
Tapes == [1..TapeLen -> Draws]

\* the i-th draw (i = 0, 1, ...) of random.random()
Random(tape, i) == tape[(i % Len(tape)) + 1]

\* random.uniform(a, b) = a + (b - a) * random.random()
Uniform(a, b, u) == a + ((b - a) * u) \div 100

----------------------------------------------------------------------------
(* generate_simulated_data *)

\* "sensor-001", "sensor-002", "sensor-003"
DefaultSensors == <<Str(1), Str(2), Str(3)>>

\* the filter's "All" entry
All == Str(0)

\* the last position of sensor_id in sensor_ids: the dict entry the loop of
\* lines 49-53 leaves for it
LastPos(sensor_ids, sensor_id) ==
    CHOOSE j \in 1..Len(sensor_ids) :
        /\ sensor_ids[j] = sensor_id
        /\ \A k \in (j + 1)..Len(sensor_ids) : sensor_ids[k] # sensor_id

BaseValues(sensor_ids, tape) ==
    [s \in {sensor_ids[j] : j \in 1..Len(sensor_ids)} |->
        [voltage_base |-> Uniform(11000, 12500,
                                  Random(tape, 2 * (LastPos(sensor_ids, s) - 1))),
         current_base |-> Uniform(400, 800,
                                  Random(tape, 2 * (LastPos(sensor_ids, s) - 1) + 1))]]

\* lines 37-53: the frame before the first test of the while loop
GenStart(start_date, end_date, sensor_ids, interval_minutes, tape) ==
    LET ids == IF sensor_ids = <<>> THEN DefaultSensors ELSE sensor_ids
    IN [current_time |-> start_date,
        end_date |-> end_date,
        sensor_ids |-> ids,
        interval_minutes |-> interval_minutes,
        tape |-> tape,
        base_values |-> BaseValues(ids, tape),
        data_points |-> <<>>,
        draws |-> 2 * Len(ids)]

\* mutant: the loop stops before end_date is reached
GenCondStrict(g) == g.current_time < g.end_date

\* line 56
GenCond(g) == g.current_time <= g.end_date

Hour(t) == (t \div 60) % 24

\* mutant: the evening ends an hour early
DampenBefore22(voltage, hour) ==
    IF 18 <= hour /\ hour < 22 THEN (voltage * 98) \div 100 ELSE voltage

\* lines 67-69
Dampen(voltage, hour) ==
    IF 18 <= hour /\ hour <= 22 THEN (voltage * 98) \div 100 ELSE voltage

\* lines 58-78: the data point of the j-th sensor at g.current_time; d is the
\* number of draws made before it
DataPoint(g, j, d) ==
    LET sensor_id == g.sensor_ids[j]
        voltage == g.base_values[sensor_id].voltage_base
                     + Uniform(-500, 500, Random(g.tape, d))
        current == g.base_values[sensor_id].current_base
                     + Uniform(-100, 100, Random(g.tape, d + 1))
    IN [id |-> sensor_id,
        timestamp |-> IsoStr(g.current_time),
        voltage |-> Float(Dampen(voltage, Hour(g.current_time))),
        current |-> Float(current),
        status |-> IF Random(g.tape, d + 2) > 5 THEN "normal" ELSE "warning"]

\* mutant: the current time is left where it is
NextTimeStill(t, interval_minutes) == t

\* line 83; the datetimes of the model are whole minutes, and the intervals it
\* tries are durations of whole minutes
NextTime(t, interval_minutes) == t + Timedelta(interval_minutes).minutes

\* mutant: the sensors are visited last to first
GenIterReversed(g) ==
    LET k == Len(g.sensor_ids)
    IN [g EXCEPT
          !.data_points = @ \o [j \in 1..k |->
                                  DataPoint(g, k + 1 - j, g.draws + 3 * (j - 1))],
          !.draws = @ + 3 * k,
          !.current_time = NextTime(@, g.interval_minutes)]

\* lines 57-83: one iteration of the while loop
GenIter(g) ==
    LET k == Len(g.sensor_ids)
    IN [g EXCEPT
          !.data_points = @ \o [j \in 1..k |-> DataPoint(g, j, g.draws + 3 * (j - 1))],
          !.draws = @ + 3 * k,
          !.current_time = NextTime(@, g.interval_minutes)]

RECURSIVE GenRun(_)
GenRun(g) == IF GenCond(g) THEN GenRun(GenIter(g)) ELSE g

ReadingColumns == {"id", "timestamp", "voltage", "current", "status"}

\* a list of dicts (all with the same keys) as a table
MkList(rows) ==
    IF rows = <<>> THEN [columns |-> {}, rows |-> <<>>]
    ELSE [columns |-> DOMAIN rows[1], rows |-> rows]

EmptyList == MkList(<<>>)

\* lines 24-86: the list of dicts generate_simulated_data returns
GenerateSimulatedData(start_date, end_date, sensor_ids, interval_minutes, tape) ==
    MkList(GenRun(GenStart(start_date, end_date, sensor_ids,
                           interval_minutes, tape)).data_points)

----------------------------------------------------------------------------
(* The fetch wrappers. fault: an exception is raised inside the try block  *)
(* (by the generator or the logging around it).                            *)

\* stands for timedelta(days=7), in minutes
HistoryMinutes == 20

\* lines 89-104
FetchAllSensorData(now, tape, fault) ==
    IF fault THEN EmptyList
    ELSE GenerateSimulatedData(now - HistoryMinutes, now, <<>>,
                               Interval(DEFAULT_INTERVAL, 0), tape)

\* lines 106-121
FetchSensorDataById(sensor_id, now, tape, fault) ==
    IF fault THEN NoneValue
    ELSE GenerateSimulatedData(now - HistoryMinutes, now, <<sensor_id>>,
                               Interval(DEFAULT_INTERVAL, 0), tape)

\* lines 123-138; sensor_id is None, "All" or a sensor's id
FetchSensorDataInRange(start_date, end_date, sensor_id, tape, fault) ==
    IF fault THEN EmptyList
    ELSE IF sensor_id # NoneValue /\ sensor_id # All
         THEN GenerateSimulatedData(start_date, end_date, <<sensor_id>>,
                                    Interval(DEFAULT_INTERVAL, 0), tape)
         ELSE GenerateSimulatedData(start_date, end_date, <<>>,
                                    Interval(DEFAULT_INTERVAL, 0), tape)

----------------------------------------------------------------------------
(* process_sensor_data *)

EmptyDataFrame == [columns |-> {}, rows |-> <<>>]

\* DataFrame.empty
IsEmpty(d) == d.rows = <<>> \/ d.columns = {}

Column(d, c) == [i \in 1..Len(d.rows) |-> d.rows[i][c]]

\* df[c] = cells, for a column c the frame may or may not have yet
SetColumn(d, c, cells) ==
    [columns |-> d.columns \cup {c},
     rows |-> [i \in 1..Len(d.rows) |->
                 [k \in d.columns \cup {c} |->
                     IF k = c THEN cells[i] ELSE d.rows[i][k]]]]

Ok(d) == [raised |-> FALSE, df |-> d]
Raised(d) == [raised |-> TRUE, df |-> d]

\* pd.to_datetime parses an isoformat string and keeps a datetime
CanDatetime(x) == x.t \in {"isostr", "datetime"}
ToDatetime(x) == DateTime(x.v)

\* float(x): a number, or a string that spells one
CanFloat(x) == x.t \in {"float", "int", "numstr"}
ToFloat(x) == IF x.t = "float" THEN x ELSE Float(x.v * 100)

\* str(x) never fails
CanStr(x) == TRUE
ToStr(x) ==
    IF x.t \in {"str", "numstr", "isostr", "floatstr"} THEN x
    ELSE IF x.t = "int" THEN NumStr(x.v)
    ELSE IF x.t = "float" THEN [t |-> "floatstr", v |-> x.v]
    ELSE [t |-> "str", v |-> x.v]

\* lines 162, 171, 178, 195: what each column is converted to
KindOf ==
    [timestamp |-> "datetime", voltage |-> "float", current |-> "float", id |-> "str"]

CanConvert(x, kind) ==
    IF kind = "datetime" THEN CanDatetime(x)
    ELSE IF kind = "float" THEN CanFloat(x)
    ELSE CanStr(x)

Convert(x, kind) ==
    IF kind = "datetime" THEN ToDatetime(x)
    ELSE IF kind = "float" THEN ToFloat(x)
    ELSE ToStr(x)

\* a whole-column conversion raises when one cell cannot be converted
ConvertColumn(d, c) ==
    IF \A i \in 1..Len(d.rows) : CanConvert(d.rows[i][c], KindOf[c])
    THEN Ok(SetColumn(d, c, [i \in 1..Len(d.rows) |-> Convert(d.rows[i][c], KindOf[c])]))
    ELSE Raised(d)

\* Python's a * b on two cells: numbers multiply, a string times an int is
\* the string repeated, anything else with a string is a TypeError
CanMul(a, b) ==
    \/ a.t \in {"float", "int"} /\ b.t \in {"float", "int"}
    \/ a.t \in {"str", "numstr"} /\ b.t = "int"
    \/ a.t = "int" /\ b.t \in {"str", "numstr"}

Mul(a, b) ==
    IF a.t = "float" /\ b.t = "float" THEN Float(FMul(a.v, b.v))
    ELSE IF a.t = "float" /\ b.t = "int" THEN Float(a.v * b.v)
    ELSE IF a.t = "int" /\ b.t = "float" THEN Float(a.v * b.v)
    ELSE IF a.t = "int" /\ b.t = "int" THEN IntV(a.v * b.v)
    ELSE IF a.t = "int" THEN [t |-> "repeated", v |-> b.v * 100 + a.v]
    ELSE [t |-> "repeated", v |-> a.v * 100 + b.v]

\* line 186: df['power'] = df['voltage'] * df['current']
PowerColumn(d) ==
    IF \A i \in 1..Len(d.rows) : CanMul(d.rows[i]["voltage"], d.rows[i]["current"])
    THEN Ok(SetColumn(d, "power",
                      [i \in 1..Len(d.rows) |->
                          Mul(d.rows[i]["voltage"], d.rows[i]["current"])]))
    ELSE Raised(d)

\* mutant: no inner try/except, the error reaches the outer handler
GuardedPropagates(d, r) == r

\* an inner try/except of lines 160-197: the error is logged and the frame
\* is left as it was
Guarded(d, r) == IF r.raised THEN Ok(d) ELSE r

\* one `if c in df.columns: try: ... except: log` block, unless an exception
\* is already on its way to the outer handler
Step(r, c) ==
    IF r.raised \/ c \notin r.df.columns THEN r
    ELSE Guarded(r.df, ConvertColumn(r.df, c))

\* lines 183-189
PowerStep(r) ==
    IF r.raised \/ ~({"voltage", "current"} \subseteq r.df.columns) THEN r
    ELSE Guarded(r.df, PowerColumn(r.df))

\* lines 202-207: the outer handler returns an empty DataFrame
OuterHandler(r) == IF r.raised THEN Ok(EmptyDataFrame) ELSE r

\* lines 141-207; data is a list of dicts or None
ProcessSensorData(data) ==
    IF data = NoneValue \/ data.rows = <<>> THEN Ok(EmptyDataFrame)
    ELSE IF IsEmpty(data) THEN Ok(data)
    ELSE OuterHandler(
           Step(PowerStep(Step(Step(Step(Ok(data), "timestamp"), "voltage"),
                               "current")),
                "id"))

----------------------------------------------------------------------------
(* st.session_state: a dict *)

EmptyDict == [k \in {} |-> 0]

Has(ss, k) == k \in DOMAIN ss

Put(ss, k, val) == [x \in DOMAIN ss \cup {k} |-> IF x = k THEN val ELSE ss[x]]

Del(ss, k) == [x \in DOMAIN ss \ {k} |-> ss[x]]

----------------------------------------------------------------------------
(* simulate_real_time_data and update_real_time_buffer *)

\* a function on 1..n as the tuple of its values
Tuple(f) == f \o <<>>

\* the rows in the order of their timestamps, rows with equal timestamps in
\* the order they had: row i goes to place rank[i]
SortRows(rows) ==
    LET n == Len(rows)
        Before(j, i) ==
            \/ rows[j]["timestamp"].v < rows[i]["timestamp"].v
            \/ rows[j]["timestamp"].v = rows[i]["timestamp"].v /\ j < i
        rank == Tuple([i \in 1..n |-> 1 + Cardinality({j \in 1..n : Before(j, i)})])
        at == Tuple([p \in 1..n |-> CHOOSE i \in 1..n : rank[i] = p])
    IN Tuple([p \in 1..n |-> rows[at[p]]])

\* line 224: df.sort_values('timestamp'); rows with equal timestamps are kept
\* in their order (the order of ties is the sort routine's choice)
SortValues(d) == [columns |-> d.columns, rows |-> SortRows(d.rows)]

\* df.iloc[a:b] for 0 <= a and a <= b
Iloc(d, a, b) ==
    [columns |-> d.columns, rows |-> SubSeq(d.rows, a + 1, Min(b, Len(d.rows)))]

\* df.iloc[-n:] for n > 0
IlocLast(d, n) ==
    [columns |-> d.columns,
     rows |-> SubSeq(d.rows, Len(d.rows) - Min(n, Len(d.rows)) + 1, Len(d.rows))]

\* mutant: the cursor runs past the end of the batch
NextIndexNoWrap(index, simulation_speed, n) == index + simulation_speed

\* line 240
NextIndex(index, simulation_speed, n) == (index + simulation_speed) % n

\* mutant: the cursor is created before the batch is looked at
SimulateRealTimeDataInitFirst(ss, d, simulation_speed) ==
    LET ss1 == IF Has(ss, "simulation_index") THEN ss
               ELSE Put(ss, "simulation_index", 0)
    IN IF IsEmpty(d) \/ "timestamp" \notin d.columns
       THEN [ret |-> NoneValue, session_state |-> ss1]
       ELSE LET sorted == SortValues(d)
                stored == ss1["simulation_index"]
                index == IF stored >= Len(sorted.rows) THEN 0 ELSE stored
            IN [ret |-> Iloc(sorted, index, index + simulation_speed),
                session_state |->
                    Put(ss1, "simulation_index",
                        NextIndex(index, simulation_speed, Len(sorted.rows)))]

\* lines 210-242: the value returned and the session state left behind
SimulateRealTimeData(ss, d, simulation_speed) ==
    IF IsEmpty(d) \/ "timestamp" \notin d.columns
    THEN [ret |-> NoneValue, session_state |-> ss]
    ELSE LET sorted == SortValues(d)
             ss1 == IF Has(ss, "simulation_index") THEN ss
                    ELSE Put(ss, "simulation_index", 0)
             stored == ss1["simulation_index"]
             index == IF stored >= Len(sorted.rows) THEN 0 ELSE stored
         IN [ret |-> Iloc(sorted, index, index + simulation_speed),
             session_state |->
                 Put(ss1, "simulation_index",
                     NextIndex(index, simulation_speed, Len(sorted.rows)))]

\* pd.concat([a, b])
Concat(a, b) == [columns |-> a.columns \cup b.columns, rows |-> a.rows \o b.rows]

\* mutant: nothing is evicted
TruncateNever(buffer) == buffer

\* mutant: the newest rows are evicted instead of the oldest
TruncateKeepsOldest(buffer) ==
    IF Len(buffer.rows) > MAX_BUFFER_SIZE
    THEN Iloc(buffer, 0, MAX_BUFFER_SIZE)
    ELSE buffer

\* lines 265-266
Truncate(buffer) ==
    IF Len(buffer.rows) > MAX_BUFFER_SIZE
    THEN IlocLast(buffer, MAX_BUFFER_SIZE)
    ELSE buffer

\* lines 245-269: the session state update_real_time_buffer leaves behind
UpdateRealTimeBuffer(ss, new_data) ==
    IF ~Has(ss, "real_time_buffer")
    THEN Put(ss, "real_time_buffer", new_data)
    ELSE Put(ss, "real_time_buffer",
             Truncate(Concat(ss["real_time_buffer"], new_data)))

\* lines 412-416: the next slice is taken and, unless there is none, appended;
\* the slice and the session state left behind
PlaybackTick(ss, base_df, simulation_speed) ==
    LET r == SimulateRealTimeData(ss, base_df, simulation_speed)
    IN IF r.ret # NoneValue /\ ~IsEmpty(r.ret)
       THEN [ret |-> r.ret, appended |-> TRUE,
             session_state |-> UpdateRealTimeBuffer(r.session_state, r.ret)]
       ELSE [ret |-> r.ret, appended |-> FALSE, session_state |-> r.session_state]

----------------------------------------------------------------------------
(* Values of the variables a specification does not use *)

DefaultWidgets ==
    [auto_refresh |-> FALSE,
     simulation_mode |-> FALSE,
     simulation_speed |-> 1,
     end_datetime |-> 0,
     selected_sensor_id |-> All]

\* what a script run has done: replaced the batch on the button's behalf,
\* replaced it on auto-refresh's behalf, played a slice; count numbers the runs
NoRun == [fetched |-> FALSE, refreshed |-> FALSE, advanced |-> FALSE, count |-> 0]

ScriptOff ==
    /\ widgets = DefaultWidgets
    /\ pc = "off"
    /\ clicked = FALSE
    /\ df = EmptyDataFrame
    /\ elapsed = 0
    /\ run = NoRun

GenOff == gen = [pc |-> "off"]
CallOff == call = [pc |-> "off"]

scriptVars == <<widgets, pc, clicked, df, elapsed, run>>

----------------------------------------------------------------------------
(* SpecGen: one call of generate_simulated_data, the while loop of lines   *)
(* 56-83 taken one iteration at a time.                                    *)

\* 00:00, 17:45 and 22:50, in minutes
GenStarts == {0, 1065, 1370}
Intervals == {Interval(DEFAULT_INTERVAL, 0), Interval(MaxInterval, 0)}
GenSensorLists == {<<>>, <<Str(1)>>, <<Str(1), Str(2)>>, <<Str(2), Str(1)>>}

InitGen ==
    /\ \E start_date \in GenStarts, span \in -1..MaxSpan,
          sensor_ids \in GenSensorLists, interval_minutes \in Intervals,
          tape \in Tapes :
          gen = [pc |-> "loop",
                 start_date |-> start_date,
                 passed_ids |-> sensor_ids,
                 frame |-> GenStart(start_date, start_date + span, sensor_ids,
                                    interval_minutes, tape),
                 ret |-> NoneValue]
    /\ session_state = EmptyDict
    /\ ScriptOff
    /\ CallOff

\* lines 56-83: the loop test holds and the body runs once
GenLoop ==
    /\ gen.pc = "loop"
    /\ GenCond(gen.frame)
    /\ gen' = [gen EXCEPT !.frame = GenIter(@)]
    /\ UNCHANGED <<session_state, scriptVars, call>>

\* lines 85-86: the loop test fails and the list is returned
GenReturn ==
    /\ gen.pc = "loop"
    /\ ~GenCond(gen.frame)
    /\ gen' = [gen EXCEPT !.pc = "done", !.ret = MkList(gen.frame.data_points)]
    /\ UNCHANGED <<session_state, scriptVars, call>>

NextGen == GenLoop \/ GenReturn

SpecGen == InitGen /\ [][NextGen]_vars

----------------------------------------------------------------------------
(* SpecTerm: the sampling loop of generate_simulated_data, also for        *)
(* intervals that are positive but shorter than a duration can hold.       *)

\* most iterations of the while loop that are followed
MaxIterations == 8

\* positive fractions of a minute, in billionths, that timedelta rounds to no
\* time at all: 1e-9 and 8e-9 minutes are 0.06 and 0.48 microseconds
SubMicroNanos == {1, 8}

TermIntervals == Intervals \cup {Interval(0, f) : f \in SubMicroNanos}

InitTerm ==
    /\ \E start_date \in GenStarts, span \in -1..MaxSpan,
          sensor_ids \in {<<>>, <<Str(1)>>}, interval_minutes \in TermIntervals,
          tape \in Tapes :
          gen = [pc |-> "loop",
                 start_date |-> start_date,
                 passed_ids |-> sensor_ids,
                 frame |-> GenStart(start_date, start_date + span, sensor_ids,
                                    interval_minutes, tape),
                 ret |-> NoneValue]
    /\ session_state = EmptyDict
    /\ ScriptOff
    /\ CallOff

\* iterations of the loop made so far
Iterations == Len(gen.frame.data_points) \div Len(gen.frame.sensor_ids)

\* lines 56-83, followed for MaxIterations iterations
TermLoop ==
    /\ Iterations < MaxIterations
    /\ GenLoop

NextTerm == TermLoop \/ GenReturn

\* the interpreter keeps running the call
SpecTerm == InitTerm /\ [][NextTerm]_vars /\ WF_vars(NextTerm)

----------------------------------------------------------------------------
(* SpecFetch: one call of one of the three fetch wrappers.                 *)

\* the wall-clock minute of the call: 18:20
FetchNow == 1100

FetchFunctions ==
    {"fetch_all_sensor_data", "fetch_sensor_data_by_id", "fetch_sensor_data_in_range"}

InitFetch ==
    /\ \E fn \in FetchFunctions, start_date \in GenStarts, span \in -1..MaxSpan,
          sensor_id \in {NoneValue, All, Str(1), Str(2)},
          tape \in Tapes, fault \in BOOLEAN :
          call = [pc |-> "called", fn |-> fn,
                  start_date |-> start_date, end_date |-> start_date + span,
                  sensor_id |-> sensor_id, tape |-> tape, fault |-> fault,
                  ret |-> NoneValue]
    /\ session_state = EmptyDict
    /\ ScriptOff
    /\ GenOff

FetchAllReturn ==
    /\ call.pc = "called"
    /\ call.fn = "fetch_all_sensor_data"
    /\ call' = [call EXCEPT !.pc = "returned",
                            !.ret = FetchAllSensorData(FetchNow, call.tape, call.fault)]
    /\ UNCHANGED <<session_state, scriptVars, gen>>

FetchByIdReturn ==
    /\ call.pc = "called"
    /\ call.fn = "fetch_sensor_data_by_id"
    /\ call.sensor_id \notin {NoneValue, All}
    /\ call' = [call EXCEPT !.pc = "returned",
                            !.ret = FetchSensorDataById(call.sensor_id, FetchNow,
                                                        call.tape, call.fault)]
    /\ UNCHANGED <<session_state, scriptVars, gen>>

FetchInRangeReturn ==
    /\ call.pc = "called"
    /\ call.fn = "fetch_sensor_data_in_range"
    /\ call' = [call EXCEPT !.pc = "returned",
                            !.ret = FetchSensorDataInRange(call.start_date, call.end_date,
                                                           call.sensor_id, call.tape,
                                                           call.fault)]
    /\ UNCHANGED <<session_state, scriptVars, gen>>

NextFetch == FetchAllReturn \/ FetchByIdReturn \/ FetchInRangeReturn

SpecFetch == InitFetch /\ [][NextFetch]_vars

----------------------------------------------------------------------------
(* SpecProc: one call of process_sensor_data.                              *)

\* most dicts in the list handed to process_sensor_data
MaxProcRows == 2

CellsOf ==
    [timestamp |-> {IsoStr(0), Str(9)},
     voltage |-> {Float(11000), IntV(2), Str(7)},
     current |-> {Float(500), IntV(3), Str(8)},
     id |-> {Str(1), IntV(4)}]

ProcColumns == DOMAIN CellsOf

RowsOver(cs) ==
    {f \in [cs -> UNION {CellsOf[c] : c \in cs}] : \A c \in cs : f[c] \in CellsOf[c]}

\* the lists of n dicts over the columns cs
ProcInputs(cs, n) ==
    {[columns |-> cs, rows |-> rows] : rows \in [1..n -> RowsOver(cs)]}

InitProc ==
    /\ \/ \E data \in {NoneValue, EmptyList} :
             call = [pc |-> "called", fn |-> "process_sensor_data",
                     data |-> data, ret |-> Ok(EmptyDataFrame)]
       \/ \E cs \in SUBSET ProcColumns, n \in 1..MaxProcRows :
             \E data \in ProcInputs(cs, n) :
                call = [pc |-> "called", fn |-> "process_sensor_data",
                        data |-> data, ret |-> Ok(EmptyDataFrame)]
    /\ session_state = EmptyDict
    /\ ScriptOff
    /\ GenOff

ProcessReturn ==
    /\ call.pc = "called"
    /\ call.fn = "process_sensor_data"
    /\ call' = [call EXCEPT !.pc = "returned", !.ret = ProcessSensorData(call.data)]
    /\ UNCHANGED <<session_state, scriptVars, gen>>

NextProc == ProcessReturn

SpecProc == InitProc /\ [][NextProc]_vars

----------------------------------------------------------------------------
(* SpecAdv: successive playback ticks (lines 412-416) on one batch: a call *)
(* of simulate_real_time_data and the append of what it returns.           *)

\* most rows of a batch
MaxBatch == 4
\* largest cursor found in the session state at the first call
MaxCursor == 5
\* the largest simulation speed tried (the slider allows 1..10)
MaxSpeed == 5
\* most calls in a row
MaxAdvances == 3
\* a long batch and a cursor near its end
BigBatch == 100
BigCursor == 98

Speeds == {1, 3, MaxSpeed}

PlayColumns == {"id", "timestamp"}

\* the batch whose i-th row carries timestamp ts[i]; the id tells the rows apart
Batch(ts) ==
    [columns |-> PlayColumns,
     rows |-> [i \in 1..Len(ts) |-> [id |-> Str(i), timestamp |-> DateTime(ts[i])]]]

AdvBatches ==
    {EmptyDataFrame,
     [columns |-> {"id"}, rows |-> <<[id |-> Str(1)]>>]} \cup
    UNION {{Batch(ts) : ts \in [1..n -> {0, 15}]} : n \in 0..MaxBatch}

WithIndex(c) == Put(EmptyDict, "simulation_index", c)

\* a buffer left by earlier ticks
OldBuffer ==
    [columns |-> PlayColumns, rows |-> <<[id |-> Str(9), timestamp |-> DateTime(0)]>>]

AdvSessions ==
    LET cursors == {EmptyDict} \cup {WithIndex(c) : c \in 0..MaxCursor}
    IN cursors \cup {Put(ss, "real_time_buffer", OldBuffer) : ss \in cursors}

InitAdv ==
    /\ \E d \in AdvBatches \cup {Batch([i \in 1..BigBatch |-> 15 * i])},
          ss \in AdvSessions \cup {WithIndex(BigCursor)} :
          /\ (Len(d.rows) > MaxBatch) = (ss = WithIndex(BigCursor))
          /\ session_state = ss
          /\ call = [pc |-> "ready", fn |-> "simulate_real_time_data", df |-> d,
                     n |-> 0, speed |-> 0, before |-> ss, ret |-> NoneValue,
                     played |-> <<>>, start |-> ss, speeds |-> <<>>]
    /\ ScriptOff
    /\ GenOff

Advance ==
    /\ call.fn = "simulate_real_time_data"
    /\ call.n < MaxAdvances
    /\ \E simulation_speed \in Speeds :
          LET r == PlaybackTick(session_state, call.df, simulation_speed)
          IN /\ session_state' = r.session_state
             /\ call' = [call EXCEPT
                           !.pc = "returned",
                           !.n = @ + 1,
                           !.speed = simulation_speed,
                           !.before = session_state,
                           !.ret = r.ret,
                           !.played = @ \o (IF r.ret = NoneValue THEN <<>>
                                            ELSE r.ret.rows),
                           !.speeds = Append(@, simulation_speed)]
    /\ UNCHANGED <<scriptVars, gen>>

NextAdv == Advance

SpecAdv == InitAdv /\ [][NextAdv]_vars

----------------------------------------------------------------------------
(* SpecBuf: successive calls of update_real_time_buffer, starting with no  *)
(* buffer in the session state. Rows are numbered in arrival order.        *)

\* most calls in a row
MaxAppends == 4
\* sizes of the slices appended, beside 0 and 1
MidSlice == 60
BigSlice == 101

SliceSizes == {0, 1, MidSlice, BigSlice}

ArrivalRow(k) == [id |-> Str(1), timestamp |-> DateTime(k)]

\* the k rows that arrive after the first `from` rows
Slice(from, k) ==
    [columns |-> PlayColumns, rows |-> [i \in 1..k |-> ArrivalRow(from + i)]]

InitBuf ==
    /\ session_state = EmptyDict
    /\ call = [pc |-> "ready", fn |-> "update_real_time_buffer", calls |-> 0,
               appended |-> <<>>, new_data |-> EmptyDataFrame,
               first |-> EmptyDataFrame]
    /\ ScriptOff
    /\ GenOff

AppendSlice ==
    /\ call.fn = "update_real_time_buffer"
    /\ call.calls < MaxAppends
    /\ \E k \in SliceSizes :
          LET new_data == Slice(Len(call.appended), k)
          IN /\ session_state' = UpdateRealTimeBuffer(session_state, new_data)
             /\ call' = [call EXCEPT
                           !.pc = "returned",
                           !.calls = @ + 1,
                           !.appended = @ \o new_data.rows,
                           !.new_data = new_data,
                           !.first = IF call.calls = 0 THEN new_data ELSE @]
    /\ UNCHANGED <<scriptVars, gen>>

NextBuf == AppendSlice

SpecBuf == InitBuf /\ [][NextBuf]_vars

----------------------------------------------------------------------------
(* Spec: the dashboard session. Streamlit runs the script of lines 272-719 *)
(* from top to bottom on every user event and on every timed reload; the   *)
(* blocks of the script that touch the session state are the steps of a    *)
(* run.                                                                    *)

\* most script runs of a session
MaxRuns == 5
\* the refresh-interval slider is left at its minimum, in seconds
MIN_REFRESH_INTERVAL == 5
\* the later of the two end times the user picks, in minutes after the start
MaxDashEnd == 30

\* start_datetime is minute 0; end_datetime is one of these
DashEnds == {0 - DEFAULT_INTERVAL, DEFAULT_INTERVAL, MaxDashEnd}
DashSpeeds == {1, 3}
DashTapes == {[i \in 1..TapeLen |-> 0], [i \in 1..TapeLen |-> 50]}

\* seconds since last_refresh are counted up to here
MaxElapsed == MIN_REFRESH_INTERVAL + 1

SensorData == session_state["sensor_data"]

\* lines 312-320: the entries of the Sensor ID select box
SensorOptions(ss) ==
    {All} \cup
    (IF Has(ss, "sensor_data") /\ ~IsEmpty(ss["sensor_data"])
        /\ "id" \in ss["sensor_data"].columns
     THEN {ss["sensor_data"].rows[i]["id"] : i \in 1..Len(ss["sensor_data"].rows)}
     ELSE {})

\* a select box whose value is no longer among its entries shows the first
Selected(w, ss) ==
    IF w.selected_sensor_id \in SensorOptions(ss) THEN w.selected_sensor_id ELSE All

\* lines 328-333 and 391-394; fetch_sensor_data_in_range treats "All" and no
\* sensor alike
FetchSelected(w, tape, fault) ==
    FetchSensorDataInRange(0, w.end_datetime, w.selected_sensor_id, tape, fault)

\* lines 337-347: the batch is stored, the cursor reset and the buffer dropped
StoreFetched(ss, d) ==
    LET ss1 == Put(Put(ss, "sensor_data", d), "last_refresh", "now")
        ss2 == IF Has(ss1, "simulation_index")
               THEN Put(ss1, "simulation_index", 0) ELSE ss1
    IN IF Has(ss2, "real_time_buffer") THEN Del(ss2, "real_time_buffer") ELSE ss2

\* lines 396-398: the batch is stored
StoreRefreshed(ss, d) == Put(Put(ss, "sensor_data", d), "last_refresh", "now")

InitDash ==
    /\ session_state = EmptyDict
    /\ widgets = DefaultWidgets
    /\ pc = "button"
    /\ clicked = FALSE
    /\ df = EmptyDataFrame
    /\ elapsed = 0
    /\ run = [NoRun EXCEPT !.count = 1]
    /\ GenOff
    /\ CallOff

Waiting == pc \in {"idle", "sleeping"}

\* lines 279-321 of a new run, started by the widgets w and the button
StartRun(w, button) ==
    /\ run.count < MaxRuns
    /\ widgets' = [w EXCEPT !.selected_sensor_id = Selected(w, session_state)]
    /\ clicked' = button
    /\ pc' = "button"
    /\ df' = EmptyDataFrame
    /\ run' = [NoRun EXCEPT !.count = run.count + 1]
    /\ UNCHANGED <<session_state, elapsed, gen, call>>

\* the user clicks Fetch Data
ClickFetch == Waiting /\ StartRun(widgets, TRUE)

\* the user ticks or unticks "Auto-refresh data"
ToggleAutoRefresh ==
    Waiting /\ StartRun([widgets EXCEPT !.auto_refresh = ~@], FALSE)

\* the user ticks or unticks "Enable real-time simulation"
ToggleSimulation ==
    Waiting /\ StartRun([widgets EXCEPT !.simulation_mode = ~@], FALSE)

\* the user moves the simulation speed slider, enabled in simulation mode
SetSimulationSpeed ==
    /\ Waiting
    /\ widgets.simulation_mode
    /\ \E v \in DashSpeeds \ {widgets.simulation_speed} :
          StartRun([widgets EXCEPT !.simulation_speed = v], FALSE)

\* the user picks another end date or time
SetEndDatetime ==
    /\ Waiting
    /\ \E v \in DashEnds \ {widgets.end_datetime} :
          StartRun([widgets EXCEPT !.end_datetime = v], FALSE)

\* the user picks another entry of the Sensor ID select box
SelectSensor ==
    /\ Waiting
    /\ \E v \in SensorOptions(session_state) \ {widgets.selected_sensor_id} :
          StartRun([widgets EXCEPT !.selected_sensor_id = v], FALSE)

\* a second passes while the page is idle
TimePasses ==
    /\ pc = "idle"
    /\ elapsed < MaxElapsed
    /\ elapsed' = elapsed + 1
    /\ UNCHANGED <<session_state, widgets, pc, clicked, df, run, gen, call>>

\* lines 660-661: time.sleep(1) is over and st.experimental_rerun() starts the
\* next run
TimedRerun ==
    /\ pc = "sleeping"
    /\ run.count < MaxRuns
    /\ widgets' = [widgets EXCEPT !.selected_sensor_id = Selected(widgets, session_state)]
    /\ clicked' = FALSE
    /\ pc' = "button"
    /\ df' = EmptyDataFrame
    /\ run' = [NoRun EXCEPT !.count = run.count + 1]
    /\ elapsed' = Min(elapsed + 1, MaxElapsed)
    /\ UNCHANGED <<session_state, gen, call>>

\* lines 324-356: the Fetch Data button's handler
FetchButton ==
    /\ pc = "button"
    /\ pc' = "init"
    /\ IF clicked
       THEN \E tape \in DashTapes, fault \in BOOLEAN :
               /\ session_state' =
                     StoreFetched(session_state,
                                  ProcessSensorData(FetchSelected(widgets, tape, fault)).df)
               /\ elapsed' = 0
               /\ run' = [run EXCEPT !.fetched = TRUE]
       ELSE UNCHANGED <<session_state, elapsed, run>>
    /\ UNCHANGED <<widgets, clicked, df, gen, call>>

\* lines 359-378: the first run of a session generates the last seven days
InitialLoad ==
    /\ pc = "init"
    /\ pc' = "auto"
    /\ IF ~Has(session_state, "sensor_data")
       THEN \E tape \in DashTapes, fault \in BOOLEAN :
               /\ session_state' =
                     StoreRefreshed(session_state,
                                    ProcessSensorData(
                                        FetchAllSensorData(FetchNow, tape, fault)).df)
               /\ elapsed' = 0
       ELSE UNCHANGED <<session_state, elapsed>>
    /\ UNCHANGED <<widgets, clicked, df, run, gen, call>>

\* mutant: auto-refresh does not look at the simulation toggle
AutoRefreshDueInSimulation ==
    /\ widgets.auto_refresh
    /\ Has(session_state, "last_refresh")
    /\ elapsed > MIN_REFRESH_INTERVAL

\* lines 381-387
AutoRefreshDue ==
    /\ widgets.auto_refresh
    /\ ~widgets.simulation_mode
    /\ Has(session_state, "last_refresh")
    /\ elapsed > MIN_REFRESH_INTERVAL

\* lines 381-404: auto-refresh of the batch
AutoRefresh ==
    /\ pc = "auto"
    /\ pc' = "sim"
    /\ IF AutoRefreshDue
       THEN \E tape \in DashTapes, fault \in BOOLEAN :
               /\ session_state' =
                     StoreRefreshed(session_state,
                                    ProcessSensorData(FetchSelected(widgets, tape, fault)).df)
               /\ elapsed' = 0
               /\ run' = [run EXCEPT !.refreshed = TRUE]
       ELSE UNCHANGED <<session_state, elapsed, run>>
    /\ UNCHANGED <<widgets, clicked, df, gen, call>>

\* line 407
SimulationDue ==
    /\ widgets.simulation_mode
    /\ Has(session_state, "sensor_data")
    /\ ~IsEmpty(SensorData)

\* lines 407-435: the real-time simulation block
Simulation ==
    /\ pc = "sim"
    /\ pc' = "render"
    /\ IF SimulationDue
       THEN LET r == PlaybackTick(session_state, SensorData, widgets.simulation_speed)
            IN IF r.appended
               THEN /\ session_state' = Put(r.session_state, "last_refresh", "now")
                    /\ elapsed' = 0
                    /\ df' = r.session_state["real_time_buffer"]
                    /\ run' = [run EXCEPT !.advanced = TRUE]
               ELSE /\ session_state' = r.session_state
                    /\ df' = SensorData
                    /\ UNCHANGED <<elapsed, run>>
       ELSE /\ df' = SensorData
            /\ UNCHANGED <<session_state, elapsed, run>>
    /\ UNCHANGED <<widgets, clicked, gen, call>>

\* mutant: the page never ends in the sleep and the rerun
RenderWithoutReload ==
    /\ pc = "render"
    /\ pc' = "idle"
    /\ UNCHANGED <<session_state, widgets, clicked, df, elapsed, run, gen, call>>

\* lines 449-668: the page is drawn; in simulation mode, with data to show,
\* the run ends in time.sleep(1) and a rerun
Render ==
    /\ pc = "render"
    /\ pc' = IF ~IsEmpty(df) /\ widgets.simulation_mode THEN "sleeping" ELSE "idle"
    /\ UNCHANGED <<session_state, widgets, clicked, df, elapsed, run, gen, call>>

Next ==
    \/ ClickFetch
    \/ ToggleAutoRefresh
    \/ ToggleSimulation
    \/ SetSimulationSpeed
    \/ SetEndDatetime
    \/ SelectSensor
    \/ TimePasses
    \/ TimedRerun
    \/ FetchButton
    \/ InitialLoad
    \/ AutoRefresh
    \/ Simulation
    \/ Render

Spec == InitDash /\ [][Next]_vars

\* the positions of a script run
ScriptPositions == {"button", "init", "auto", "sim", "render"}

\* the program has a step of its own to take: a run is under way, or
\* time.sleep(1) of lines 660-661 is about to return
AtScript ==
    \/ pc \in ScriptPositions
    \/ pc = "sleeping" /\ run.count < MaxRuns

\* the program leaves its position: a block of the run is done, or the page is
\* reloaded. Each block's action is enabled whenever pc is at it, and every
\* step taken where AtScript holds changes pc.
RunOn == AtScript /\ pc' \in (ScriptPositions \cup {"idle", "sleeping"}) \ {pc}

\* a script run, once started, runs to its end (Streamlit executes the script
\* top to bottom) and time.sleep(1) returns; the user's events are not forced
ScriptProgress == WF_pc(RunOn)

SpecLive == InitDash /\ [][Next]_vars /\ ScriptProgress

----------------------------------------------------------------------------
(* Claims about the dashboard session (Spec) *)

\* the cursor is at 0 (or not there yet) and there is no rolling buffer
PlaybackReset ==
    /\ ~Has(session_state, "real_time_buffer")
    /\ Has(session_state, "simulation_index") => session_state["simulation_index"] = 0

\* the Fetch Data handler has just stored a new batch
JustFetched == pc = "init" /\ run.fetched

\* the auto-refresh block has just stored a new batch
JustRefreshed == pc = "sim" /\ run.refreshed

\* C4: whenever a new batch has been fetched and stored, by the Fetch Data
\* button or by an auto-refresh, the playback cursor is back at 0 and the
\* rolling buffer is gone.
C4_FetchResetsPlayback == (JustFetched \/ JustRefreshed) => PlaybackReset

\* C15: in every state of the session every row of the rolling buffer is a
\* row of the batch now cached, and the stored cursor is a place of that batch
\* (0 <= cursor < len(batch)) whenever the batch is not empty.
C15_BufferWithinBatch ==
    Has(session_state, "sensor_data") =>
        /\ Has(session_state, "real_time_buffer") =>
              \A i \in 1..Len(session_state["real_time_buffer"].rows) :
                  \E j \in 1..Len(SensorData.rows) :
                      SensorData.rows[j] = session_state["real_time_buffer"].rows[i]
        /\ (Has(session_state, "simulation_index") /\ ~IsEmpty(SensorData)) =>
              /\ 0 <= session_state["simulation_index"]
              /\ session_state["simulation_index"] < Len(SensorData.rows)

\* C13: no run both re-fetches on auto-refresh's behalf and plays a slice; in
\* a run with simulation mode on the auto-refresh block stores nothing and
\* leaves the cached batch (and the rest of the session state) as it was,
\* whatever the auto-refresh toggle and the time since the last refresh.
C13_ModeExclusive ==
    /\ [](~(run.refreshed /\ run.advanced))
    /\ [](widgets.simulation_mode => ~run.refreshed)
    /\ [][(pc = "auto" /\ widgets.simulation_mode) => session_state' = session_state]_vars

\* the auto-refresh block has been passed with both toggles on and the refresh
\* interval over, and the batch was not replaced; the simulation block is next
C13_Witness ==
    /\ pc = "sim"
    /\ widgets.auto_refresh
    /\ widgets.simulation_mode
    /\ elapsed > MIN_REFRESH_INTERVAL
    /\ ~run.refreshed
    /\ ~IsEmpty(SensorData)

\* a run has ended with the simulation toggle on
EndedInSimulation == Waiting /\ widgets.simulation_mode

\* C12 as stated: while simulation mode is enabled every run ends with the
\* delay followed by the reload.
C12_AlwaysReloads == EndedInSimulation => pc = "sleeping"

\* a run after the reload has reached the page with a slice played, or the
\* user has meanwhile left simulation mode or fetched an empty batch
NextTick ==
    /\ pc = "render"
    /\ run.advanced \/ ~widgets.simulation_mode \/ IsEmpty(SensorData)

\* C12 amended: a run that ends with simulation mode on ends with the delay and
\* the reload exactly when the cached batch is not empty (with an empty batch
\* the page shows the fetch prompt and nothing reloads it); and after the delay
\* another run follows, which plays a slice unless the user has left
\* simulation mode or fetched an empty batch.
C12_TickLoop ==
    /\ [](EndedInSimulation => (pc = "sleeping" <=> ~IsEmpty(SensorData)))
    /\ (pc = "sleeping" /\ run.count < MaxRuns) ~> NextTick

\* the third run of a session, started by the reload of the second, has played
\* the second row and ended in the delay
C12_Witness ==
    /\ pc = "sleeping"
    /\ run.count = 3
    /\ run.advanced
    /\ widgets = [DefaultWidgets EXCEPT !.simulation_mode = TRUE]
    /\ session_state["simulation_index"] = 2

----------------------------------------------------------------------------
(* Claims about the rolling buffer (SpecBuf) *)

Buffer == session_state["real_time_buffer"]

\* C1: starting from no buffer, the first append stores exactly the slice it
\* is given, whatever its size, and after every later append the buffer holds
\* at most MAX_BUFFER_SIZE = 100 rows.
C1_Capacity ==
    /\ call.calls = 1 => Buffer = call.first /\ Buffer.rows = call.appended
    /\ call.calls >= 2 => Len(Buffer.rows) <= MAX_BUFFER_SIZE

\* a first slice of more than 100 rows was stored whole and a later append has
\* cut the buffer to 100 rows
C1_Witness ==
    /\ call.calls >= 2
    /\ Len(call.first.rows) > MAX_BUFFER_SIZE
    /\ Len(Buffer.rows) = MAX_BUFFER_SIZE

\* C2: after at least two appends that brought more than 100 rows in all, the
\* buffer holds exactly the 100 rows appended last, in arrival order.
C2_MostRecentRows ==
    (call.calls >= 2 /\ Len(call.appended) > MAX_BUFFER_SIZE) =>
        /\ Len(Buffer.rows) = MAX_BUFFER_SIZE
        /\ Buffer.rows = SubSeq(call.appended,
                                Len(call.appended) - MAX_BUFFER_SIZE + 1,
                                Len(call.appended))

\* three appends of fewer than 100 rows each have overflowed the buffer
C2_Witness ==
    /\ call.calls = 3
    /\ Len(call.first.rows) = MidSlice
    /\ Len(call.new_data.rows) = 1
    /\ Len(call.appended) > MAX_BUFFER_SIZE + 1
    /\ Buffer.rows[MAX_BUFFER_SIZE] = ArrivalRow(Len(call.appended))

----------------------------------------------------------------------------
(* Claims about the playback cursor (SpecAdv) *)

Ticked == call.fn = "simulate_real_time_data" /\ call.n >= 1

AdvN == Len(call.df.rows)

\* the cursor the call found, 0 when there was none
AdvStored ==
    IF Has(call.before, "simulation_index") THEN call.before["simulation_index"] ELSE 0

\* the cursor the call worked with
AdvCursor == IF AdvStored >= AdvN THEN 0 ELSE AdvStored

\* row r can stand at place p (from 1) of rows put in timestamp order
CanStandAt(r, p, rows) ==
    /\ \E i \in 1..Len(rows) : rows[i] = r
    /\ Cardinality({i \in 1..Len(rows) : rows[i]["timestamp"].v < r["timestamp"].v}) < p
    /\ Cardinality({i \in 1..Len(rows) : rows[i]["timestamp"].v <= r["timestamp"].v}) >= p

\* C3: on a non-empty batch of n rows, with stored cursor c (taken as 0 when
\* c >= n) and step s, the slice returned is the rows at places c up to but not
\* including min(c + s, n) of the batch in timestamp order, and the stored
\* cursor becomes (c + s) mod n, which lies in 0..n-1.
C3_Advance ==
    (Ticked /\ ~IsEmpty(call.df) /\ "timestamp" \in call.df.columns) =>
        LET slice == call.ret.rows
            index == session_state["simulation_index"]
        IN /\ Len(slice) = Min(AdvCursor + call.speed, AdvN) - AdvCursor
           /\ \A k \in 1..Len(slice) : CanStandAt(slice[k], AdvCursor + k, call.df.rows)
           /\ \A k, m \in 1..Len(slice) : slice[k] = slice[m] => k = m
           /\ index = (AdvCursor + call.speed) % AdvN
           /\ 0 <= index /\ index < AdvN

\* cursor 98 in a batch of 100 rows, step 5: the rows at places 98 and 99 are
\* returned and the cursor becomes 3
C3_Witness ==
    /\ Ticked
    /\ call.n = 1
    /\ AdvN = 100
    /\ AdvStored = 98
    /\ call.speed = 5
    /\ call.ret.rows = SubSeq(call.df.rows, 99, 100)
    /\ session_state["simulation_index"] = 3

\* the calls so far started from cursor 0 and all took the same step
SteadyFromZero ==
    /\ Ticked
    /\ Has(call.start, "simulation_index") => call.start["simulation_index"] = 0
    /\ \A k \in 1..Len(call.speeds) : call.speeds[k] = call.speeds[1]

\* C14: for a non-empty batch of n rows and a fixed step, the slices returned
\* by successive calls from cursor 0, put end to end, are the rows of the batch
\* in timestamp order taken cyclically (places 0, 1, ..., n-1, 0, 1, ...): no
\* row is skipped or repeated, also when the step does not divide n.
C14_NoRowSkipped ==
    (SteadyFromZero /\ ~IsEmpty(call.df) /\ "timestamp" \in call.df.columns) =>
        \A k \in 1..Len(call.played) :
            CanStandAt(call.played[k], ((k - 1) % AdvN) + 1, call.df.rows)

----------------------------------------------------------------------------
(* Claims about the generator (SpecGen) *)

GenDone == gen.pc = "done"
GenSpan == gen.frame.end_date - gen.start_date
GenInterval == Timedelta(gen.frame.interval_minutes).minutes
GenRows == gen.ret.rows
GenIds == IF gen.passed_ids = <<>> THEN DefaultSensors ELSE gen.passed_ids

Ceil(a, b) == (a + b - 1) \div b

\* the sample instants start, start + interval, ... that are <= end
Instants ==
    {gen.start_date + i * GenInterval : i \in 0..GenSpan} \cap
    gen.start_date..gen.frame.end_date

\* C7 as stated: for start <= end and a single entity, generate_simulated_data
\* returns ceil((end - start) / interval) + 1 readings.
C7_CeilCount ==
    (GenDone /\ Len(gen.passed_ids) = 1 /\ GenSpan >= 0)
        => Len(GenRows) = Ceil(GenSpan, GenInterval) + 1

\* C7 amended: for start <= end and a single entity, generate_simulated_data
\* returns floor((end - start) / interval) + 1 readings, the i-th of them at
\* start + (i - 1) * interval; start 00:00, end 01:00, interval 15 gives the 5
\* readings at minutes 0, 15, 30, 45, 60.
C7_FloorCount ==
    (GenDone /\ Len(gen.passed_ids) = 1 /\ GenSpan >= 0)
        => /\ Len(GenRows) = (GenSpan \div GenInterval) + 1
           /\ \A i \in 1..Len(GenRows) :
                 GenRows[i]["timestamp"] = IsoStr(gen.start_date + (i - 1) * GenInterval)
           /\ (gen.start_date = 0 /\ GenSpan = 60 /\ GenInterval = 15)
                 => [i \in 1..Len(GenRows) |-> GenRows[i]["timestamp"].v]
                      = <<0, 15, 30, 45, 60>>

\* a single-entity call whose interval does not divide end - start has returned
C7_Witness ==
    /\ GenDone
    /\ Len(gen.passed_ids) = 1
    /\ GenSpan > GenInterval
    /\ GenSpan % GenInterval # 0
    /\ Len(GenRows) >= 2

\* C8: with k entities the generator returns k readings per sample instant
\* start, start + interval, ... <= end (none when start > end), instant by
\* instant, within an instant one reading per entity in the order the entities
\* were passed, and the timestamps of the list never decrease.
C8_Interleaved ==
    GenDone =>
        LET k == Len(GenIds)
        IN /\ Len(GenRows) = k * Cardinality(Instants)
           /\ GenSpan < 0 => GenRows = <<>>
           /\ \A i \in 1..Len(GenRows) :
                 /\ GenRows[i]["id"] = GenIds[((i - 1) % k) + 1]
                 /\ GenRows[i]["timestamp"]
                      = IsoStr(gen.start_date + ((i - 1) \div k) * GenInterval)
           /\ \A i \in 1..(Len(GenRows) - 1) :
                 GenRows[i]["timestamp"].v <= GenRows[i + 1]["timestamp"].v

\* a call with two entities has returned the readings of at least two instants
C8_Witness ==
    /\ GenDone
    /\ gen.passed_ids = <<Str(2), Str(1)>>
    /\ Len(GenRows) >= 4

\* an iteration of the while loop
Iterated == gen'.frame.data_points # gen.frame.data_points

TimeAdvanced == gen'.frame.current_time > gen.frame.current_time

\* the duration added at line 83
StepTaken == Timedelta(gen.frame.interval_minutes)

StepIsZero == StepTaken.minutes = 0 /\ StepTaken.microseconds = 0

PositiveInterval ==
    gen.frame.interval_minutes.minutes > 0 \/ gen.frame.interval_minutes.nano > 0

GenPoints == gen.frame.data_points

\* draws made before the r-th data point: two per sensor for the base values,
\* three per data point
DrawsBefore(r) == 2 * Len(GenIds) + 3 * (r - 1)

\* voltage_base + variation and current_base + variation of the r-th data point
Undampened(r) ==
    gen.frame.base_values[GenPoints[r]["id"]].voltage_base
        + Uniform(-500, 500, Random(gen.frame.tape, DrawsBefore(r)))

CurrentDrawn(r) ==
    gen.frame.base_values[GenPoints[r]["id"]].current_base
        + Uniform(-100, 100, Random(gen.frame.tape, DrawsBefore(r) + 1))

Evening(r) == Hour(GenPoints[r]["timestamp"].v) \in 18..22

\* C11: a reading's voltage is (voltage_base + variation) * 0.98 exactly when
\* the hour-of-day of its timestamp is in 18..22 (so up to 22:59) and is
\* (voltage_base + variation) unmultiplied at every other hour; the current is
\* current_base + variation at every hour.
C11_EveningDampening ==
    \A r \in 1..Len(GenPoints) :
        /\ Evening(r) =>
              /\ GenPoints[r]["voltage"] = Float((Undampened(r) * 98) \div 100)
              /\ GenPoints[r]["voltage"].v < Undampened(r)
        /\ ~Evening(r) => GenPoints[r]["voltage"] = Float(Undampened(r))
        /\ GenPoints[r]["current"] = Float(CurrentDrawn(r))

\* a returned list holds a dampened reading of 22:50 or later and an
\* undampened reading of the hour after it
C11_Witness ==
    /\ GenDone
    /\ \E r \in 1..Len(GenPoints) :
          /\ Hour(GenPoints[r]["timestamp"].v) = 22
          /\ GenPoints[r]["timestamp"].v % 60 >= 50
          /\ GenPoints[r]["voltage"].v < Undampened(r)
    /\ \E r \in 1..Len(GenPoints) :
          /\ Hour(GenPoints[r]["timestamp"].v) = 23
          /\ GenPoints[r]["voltage"].v = Undampened(r)

----------------------------------------------------------------------------
(* Claims about the fetch wrappers (SpecFetch) *)

\* C6: when generating raises, each of fetch_all_sensor_data,
\* fetch_sensor_data_by_id and fetch_sensor_data_in_range catches the fault and
\* returns an empty list.
C6_FaultGivesEmptyList ==
    (call.pc = "returned" /\ call.fault) => call.ret = EmptyList

----------------------------------------------------------------------------
(* Claims about process_sensor_data (SpecProc) *)

ProcReturned == call.pc = "returned"

\* column c of the input is there and every cell of it converts
Convertible(data, c) ==
    /\ data # NoneValue
    /\ c \in data.columns
    /\ \A i \in 1..Len(data.rows) : CanConvert(data.rows[i][c], KindOf[c])

\* C9: process_sensor_data adds a power column only if voltage and current are
\* both present and convertible to float, and then power = voltage * current in
\* every row; otherwise the result has no power column.
C9_PowerIffConvertible ==
    ProcReturned =>
        LET data == call.data
            out == call.ret.df
        IN IF /\ Convertible(data, "voltage")
              /\ Convertible(data, "current")
              /\ data.rows # <<>>
           THEN /\ "power" \in out.columns
                /\ \A i \in 1..Len(out.rows) :
                      out.rows[i]["power"] =
                          Float(FMul(ToFloat(data.rows[i]["voltage"]).v,
                                     ToFloat(data.rows[i]["current"]).v))
           ELSE "power" \notin out.columns

\* what one column of the result must hold: the converted cells when every
\* cell converts, the cells as given otherwise
ColumnAsClaimed(data, out, c) ==
    c \in data.columns =>
        /\ c \in out.columns
        /\ \A i \in 1..Len(data.rows) :
              out.rows[i][c] = IF Convertible(data, c)
                               THEN Convert(data.rows[i][c], KindOf[c])
                               ELSE data.rows[i][c]

\* C10: process_sensor_data never raises; an empty input gives an empty table;
\* a column whose conversion fails is left as it was while every other column
\* is still converted, and the table comes back with all its rows.
C10_NeverRaises ==
    ProcReturned =>
        LET data == call.data
            out == call.ret.df
        IN /\ ~call.ret.raised
           /\ (data = NoneValue \/ data = EmptyList) => out = EmptyDataFrame
           /\ (data # NoneValue /\ data # EmptyList) =>
                 /\ Len(out.rows) = Len(data.rows)
                 /\ data.columns \subseteq out.columns
                 /\ \A c \in DOMAIN KindOf : ColumnAsClaimed(data, out, c)

\* a two-row table whose voltage column does not convert has come back with
\* its current, timestamp and id columns converted
C10_Witness ==
    /\ ProcReturned
    /\ call.data # NoneValue
    /\ call.data.columns = ProcColumns
    /\ Len(call.data.rows) = 2
    /\ ~Convertible(call.data, "voltage")
    /\ Convertible(call.data, "timestamp")
    /\ call.data.rows[1]["current"] = IntV(3)
    /\ call.data.rows[1]["id"] = IntV(4)
    /\ call.ret.df.rows[1]["current"] = Float(300)
    /\ call.ret.df.rows[1]["id"] = NumStr(4)
    /\ call.ret.df.rows[1]["timestamp"] = DateTime(0)
    /\ call.ret.df.rows[1]["voltage"] = call.data.rows[1]["voltage"]

====
